---- MODULE Spec2Model ----
(***************************************************************************)
(* ConnectionBreaker (src/source/src/main.py): a PyQt6 tray application    *)
(* that binds a global hotkey to "cports.exe /close * * * * <process>".    *)
(*                                                                         *)
(* Five specifications share this module:                                  *)
(*   Spec        one running instance: main window, tray, process dialog,  *)
(*               hotkey capture, hotkey listener, kill_connections;        *)
(*   SpecCapture the hotkey capture over every captured combination, with  *)
(*               the single-shot timers of rejected captures;              *)
(*   SpecCaptureFair  SpecCapture with due timers delivered;               *)
(*   SpecLaunch  several concurrent launches racing through the admin      *)
(*               check and the single-instance lock of __main__;           *)
(*   SpecValid   the pure function is_valid_hotkey over bounded strings.   *)
(*                                                                         *)
(* A Python string is modelled as a sequence of atoms.  An atom is a key   *)
(* name ("ctrl", "k", ...), the separator "+" or the blank " ".            *)
(* Cyrillic key names are written ru_<latin name of the letter>.           *)
(***************************************************************************)
EXTENDS Integers, Sequences, FiniteSets, TLC

None == "None"

\* An optional string: NoHotkey is Python's None, Some(h) the string h.
NoHotkey == <<>>
Some(h) == <<h>>

\* ---------------------------------------------------------------------
\* Bounds of the model
\* ---------------------------------------------------------------------
MaxKeys == 2        \* keys held down in one captured combination
MaxCmds == 2        \* tool invocations recorded in one run
MaxTimers == 1      \* QTimer.singleShot callbacks pending at once
MaxStrLen == 5      \* atoms in an argument of is_valid_hotkey
NumInstances == 3   \* concurrent launches of the program

\* ---------------------------------------------------------------------
\* Strings
\* ---------------------------------------------------------------------
MODIFIERS == {<<"ctrl">>, <<"alt">>, <<"shift">>, <<"win">>}

RU_TO_EN_MAP ==
    [p \in {<<"ru_l">>, <<"ru_v">>} |->
        IF p = <<"ru_l">> THEN <<"k">> ELSE <<"d">>]

\* dict.get(part, part)
MapGet(map, part) == IF part \in DOMAIN map THEN map[part] ELSE part

\* str.lower() / str.upper(), atom by atom
LowerAtom(a) ==
    CASE a = "K" -> "k"
      [] a = "CTRL" -> "ctrl"
      [] a = "ESC" -> "esc"
      [] a = "RU_L" -> "ru_l"
      [] OTHER -> a

UpperAtom(a) ==
    CASE a = "k" -> "K"
      [] a = "d" -> "D"
      [] a = "ctrl" -> "CTRL"
      [] a = "alt" -> "ALT"
      [] a = "esc" -> "ESC"
      [] a = "backspace" -> "BACKSPACE"
      [] a = "ru_l" -> "RU_L"
      [] a = "ru_v" -> "RU_V"
      [] a = "ru_yo" -> "RU_YO"
      [] OTHER -> a

Lower(s) == [i \in DOMAIN s |-> LowerAtom(s[i])]
Upper(s) == [i \in DOMAIN s |-> UpperAtom(s[i])]

\* str.split('+'): never empty, '' splits into ['']
RECURSIVE SplitPlus(_)
SplitPlus(s) ==
    IF \A i \in DOMAIN s : s[i] # "+"
    THEN <<s>>
    ELSE LET i == CHOOSE j \in DOMAIN s :
                      s[j] = "+" /\ \A m \in 1..(j - 1) : s[m] # "+"
         IN <<SubSeq(s, 1, i - 1)>> \o SplitPlus(SubSeq(s, i + 1, Len(s)))

\* str.strip()
RECURSIVE Strip(_)
Strip(s) ==
    IF s = <<>> THEN s
    ELSE IF Head(s) = " " THEN Strip(Tail(s))
    ELSE IF s[Len(s)] = " " THEN Strip(SubSeq(s, 1, Len(s) - 1))
    ELSE s

\* sep.join(parts)
RECURSIVE Join(_, _)
Join(sep, parts) ==
    IF parts = <<>> THEN <<>>
    ELSE IF Len(parts) = 1 THEN parts[1]
    ELSE parts[1] \o sep \o Join(sep, Tail(parts))

\* [p for p in parts if keep(p)] for keep = membership / non-membership
RECURSIVE Filter(_, _, _)
Filter(parts, set, member) ==
    IF parts = <<>> THEN <<>>
    ELSE LET rest == Filter(Tail(parts), set, member)
         IN IF (Head(parts) \in set) = member
            THEN <<Head(parts)>> \o rest
            ELSE rest

Range(f) == {f[i] : i \in DOMAIN f}

\* ---------------------------------------------------------------------
\* is_valid_hotkey
\* ---------------------------------------------------------------------
is_valid_hotkey(hotkey_str) ==
    IF hotkey_str = <<>>
    THEN FALSE
    ELSE LET parts == {Lower(Strip(p)) : p \in Range(SplitPlus(hotkey_str))}
             non_modifier_keys == parts \ MODIFIERS
         IN Cardinality(non_modifier_keys) = 1

\* ---------------------------------------------------------------------
\* The part of set_new_hotkey that decides what becomes of a captured
\* combination.  outcome: "cleared" (no hotkey / esc / backspace),
\* "too_many" (rule 1), "invalid" (modifiers only), "stored".
\* ---------------------------------------------------------------------
\* Mutant: of several non-modifier keys the first one is kept.
final_hotkey_parts_first(modifier_keys, non_modifier_keys, parts) ==
    IF Len(non_modifier_keys) > 1
    THEN modifier_keys \o <<non_modifier_keys[1]>>
    ELSE parts

final_hotkey_parts(modifier_keys, non_modifier_keys, parts) ==
    IF Len(non_modifier_keys) > 1
    THEN modifier_keys \o <<non_modifier_keys[Len(non_modifier_keys)]>>
    ELSE parts

translated_parts(parts) ==
    [i \in DOMAIN parts |-> MapGet(RU_TO_EN_MAP, parts[i])]

set_new_hotkey(hotkey) ==
    LET hotkey_lower == IF hotkey # <<>> THEN Lower(hotkey) ELSE <<>>
    IN IF hotkey = <<>> \/ hotkey_lower \in {<<"esc">>, <<"backspace">>}
       THEN [outcome |-> "cleared", current_hotkey |-> NoHotkey]
       ELSE LET split == SplitPlus(hotkey_lower)
                parts == [i \in DOMAIN split |-> Strip(split[i])]
                modifier_keys == Filter(parts, MODIFIERS, TRUE)
                non_modifier_keys == Filter(parts, MODIFIERS, FALSE)
            IN IF Len(modifier_keys) > 1
               THEN [outcome |-> "too_many", current_hotkey |-> NoHotkey]
               ELSE IF Len(non_modifier_keys) = 0 /\ Len(modifier_keys) > 0
               THEN [outcome |-> "invalid", current_hotkey |-> NoHotkey]
               ELSE [outcome |-> "stored",
                     current_hotkey |->
                        Some(Join(<<" ", "+", " ">>,
                                  translated_parts(
                                      final_hotkey_parts(modifier_keys,
                                                         non_modifier_keys,
                                                         parts))))]

\* f"Hotkey: {current_hotkey.upper()}" if current_hotkey else "Set Hotkey"
\* (the empty string is false in Python)
Truthy(hotkey) == hotkey # NoHotkey /\ hotkey # Some(<<>>)

hotkey_text(hotkey) ==
    IF Truthy(hotkey)
    THEN <<"Hotkey: ">> \o Upper(hotkey[1])
    ELSE <<"Set Hotkey">>

\* ---------------------------------------------------------------------
\* Inputs of the running instance
\* ---------------------------------------------------------------------
\* Names the process list can show.
ProcNames == {"chrome.exe", "game.exe"}

\* Results of ProcessLoaderThread.run: the names in pid order.
ProcessLists == {<<>>, <<"game.exe", "chrome.exe">>}

\* Keys the user can hold down while a combination is captured, in the
\* order keyboard.read_hotkey reports them: modifiers first, then the
\* other keys in string order.
PressKeys ==
    <<"ctrl", "alt", "K", "backspace", "esc", "k", "ru_l">>

\* The combinations the user captures in Spec: nothing, a single key and
\* a modifier with a key.  SpecCapture captures all of ReadHotkeyResults.
PlainHotkeys == {<<>>, <<"k">>, <<"ctrl", "+", "k">>}

\* The strictly increasing index sequences of length n over 1..m.
RECURSIVE Increasing(_, _)
Increasing(n, m) ==
    IF n = 0 THEN {<<>>}
    ELSE {s \in {Append(t, j) : t \in Increasing(n - 1, m), j \in 1..m} :
             \A i \in 1..(Len(s) - 1) : s[i] < s[i + 1]}

\* What keyboard.read_hotkey can return: '+'.join of the keys held down
\* (the empty string stands for "nothing read").
ReadHotkeyResults ==
    {<<>>} \cup
    {Join(<<"+">>, [i \in DOMAIN s |-> <<PressKeys[s[i]]>>]) :
        s \in UNION {Increasing(n, Len(PressKeys)) : n \in 1..MaxKeys}}

\* ---------------------------------------------------------------------
\* State of the running instance (MainWindow and what it owns)
\* ---------------------------------------------------------------------
VARIABLES
    app,                \* "running" | "quit": QApplication event loop
    ui_busy,            \* None | the blocking call the UI thread is inside
    window_hidden,      \* MainWindow.isHidden()
    selected_process,   \* MainWindow.selected_process
    process_label,      \* text of MainWindow.process_label
    current_hotkey,     \* MainWindow.current_hotkey
    hotkey_listener,    \* MainWindow.hotkey_listener: [hotkey, state]
    keyboard_hotkeys,   \* hotkeys registered with the keyboard library
    hotkey_pressed,     \* queued hotkey_pressed signals (a count)
    is_paused,          \* MainWindow.is_paused
    tray_icon,          \* None (no system tray) | "shown" | "hidden"
    toggle_action,      \* text of the tray Pause/Resume action, None without tray
    set_hotkey_button,  \* [text, enabled] of MainWindow.set_hotkey_button
    hotkey_capture,     \* capture thread: [state, hotkey], hotkey the queued signal
    timers,             \* pending QTimer.singleShot callbacks: their original_text
    dialog,             \* the ProcessDialog: [open, items, ok_enabled, currentItem]
    process_loader,     \* ProcessLoaderThread: [state, processes], the queued signal
    icon_thread,        \* None | "running" | "finished": IconLoaderThread
    video_thread,       \* "running" | "stopped": VideoThread of the main window
    cports_present,     \* os.path.exists(CPORTS_PATH)
    cmds,               \* the command lines handed to subprocess.run, in order
    printed,            \* what kill_connections printed last, None before
    \* --- the launches of SpecLaunch ---
    inst,               \* per launch: pc, return values, window, exit code
    shared_memory,      \* launches holding a handle on the lock segment
    \* --- SpecValid ---
    hotkey_str,         \* argument of is_valid_hotkey
    valid_result        \* <<>> before the call | <<its return value>>

uiVars == <<app, ui_busy, window_hidden, selected_process, process_label,
            current_hotkey, hotkey_listener, keyboard_hotkeys,
            hotkey_pressed, is_paused, tray_icon, toggle_action,
            set_hotkey_button, hotkey_capture, timers, dialog,
            process_loader, icon_thread, video_thread, cports_present,
            cmds, printed>>
launchVars == <<inst, shared_memory>>
validVars == <<hotkey_str, valid_result>>
vars == <<uiVars, launchVars, validVars>>

CPORTS_PATH == "cports.exe"

\* hotkey_listener.state: "none" (no object), "starting" (thread started,
\* hotkey not yet added), "listening", "finished".
NoListener == [hotkey |-> <<>>, state |-> "none"]
IsRunning(listener) == listener.state \in {"starting", "listening"}

NoCapture == [state |-> "idle", hotkey |-> <<>>]
NoDialog == [open |-> FALSE, items |-> <<>>, ok_enabled |-> FALSE,
             currentItem |-> None]
NoLoader == [state |-> "idle", processes |-> <<>>]

\* State of MainWindow after __init__ and window.show().
UiInit ==
    /\ app = "running"
    /\ ui_busy = None
    /\ window_hidden = FALSE
    /\ selected_process = None
    /\ process_label = <<"No process selected">>
    /\ current_hotkey = NoHotkey
    /\ hotkey_listener = NoListener
    /\ keyboard_hotkeys = {}
    /\ hotkey_pressed = 0
    /\ is_paused = FALSE
    /\ tray_icon \in {None, "shown"}
    /\ toggle_action = IF tray_icon = None THEN None ELSE "Pause"
    /\ set_hotkey_button = [text |-> <<"Set Hotkey">>, enabled |-> TRUE]
    /\ hotkey_capture = NoCapture
    /\ timers = <<>>
    /\ dialog = NoDialog
    /\ process_loader = NoLoader
    /\ icon_thread = None
    /\ video_thread = "running"
    /\ cports_present \in BOOLEAN
    /\ cmds = <<>>
    /\ printed = None

\* UiInit with a system tray and the bundled tool in place.
UiRest == UiInit /\ tray_icon = "shown" /\ cports_present

\* The UI thread is free to run a handler.
UiIdle == app = "running" /\ ui_busy = None

\* The main window takes mouse input: shown and not behind a modal dialog.
WindowInput == UiIdle /\ ~window_hidden /\ ~dialog.open

\* ---------------------------------------------------------------------
\* Hotkey listener
\* ---------------------------------------------------------------------
\* start_hotkey_listener, with HotkeyListener.stop inlined: stop() returns
\* from wait() once run() has left its loop and removed the hotkey.
start_hotkey_listener ==
    LET running == IsRunning(hotkey_listener)
        stopped == IF running
                   THEN [hotkey_listener EXCEPT !.state = "finished"]
                   ELSE hotkey_listener
        hooks   == IF running
                   THEN keyboard_hotkeys \ {hotkey_listener.hotkey}
                   ELSE keyboard_hotkeys
    IN /\ hotkey_listener' =
              IF Truthy(current_hotkey')
              THEN [hotkey |-> current_hotkey'[1], state |-> "starting"]
              ELSE stopped
       /\ keyboard_hotkeys' = hooks

restart_hotkey_listener == start_hotkey_listener

\* HotkeyListener.run up to its wait loop: keyboard.add_hotkey.
ListenerRun ==
    /\ app = "running"
    /\ hotkey_listener.state = "starting"
    /\ hotkey_listener' = [hotkey_listener EXCEPT !.state = "listening"]
    /\ keyboard_hotkeys' = keyboard_hotkeys \cup {hotkey_listener.hotkey}
    /\ UNCHANGED <<launchVars, validVars, printed, app, ui_busy, window_hidden, selected_process,
                   process_label, current_hotkey, hotkey_pressed, is_paused,
                   tray_icon, toggle_action, set_hotkey_button,
                   hotkey_capture, timers, dialog, process_loader,
                   icon_thread, video_thread, cports_present, cmds>>

\* The user presses a registered combination: the keyboard hook thread
\* calls hotkey_pressed.emit, which queues kill_connections on the UI thread.
HotkeyFires ==
    /\ app = "running"
    /\ keyboard_hotkeys # {}
    /\ hotkey_pressed + Len(cmds) < MaxCmds
    /\ hotkey_pressed' = hotkey_pressed + 1
    /\ UNCHANGED <<launchVars, validVars, printed, app, ui_busy, window_hidden, selected_process,
                   process_label, current_hotkey, hotkey_listener,
                   keyboard_hotkeys, is_paused, tray_icon, toggle_action,
                   set_hotkey_button, hotkey_capture, timers, dialog,
                   process_loader, icon_thread, video_thread,
                   cports_present, cmds>>

\* Mutant: the tool is started twice for one hotkey press.
kill_connections_twice ==
    /\ hotkey_pressed' = hotkey_pressed - 1
    /\ UNCHANGED printed
    /\ IF is_paused \/ selected_process = None \/ ~cports_present
       THEN UNCHANGED <<cmds, ui_busy>>
       ELSE LET command == <<"cports.exe", "/close", "*", "*", "*", "*",
                             selected_process>>
            IN /\ cmds' = cmds \o <<command, command>>
               /\ ui_busy' = "subprocess.run"

\* Mutant: the pause flag is not looked at.
kill_connections_ignores_pause ==
    /\ hotkey_pressed' = hotkey_pressed - 1
    /\ UNCHANGED printed
    /\ IF selected_process = None \/ ~cports_present
       THEN UNCHANGED <<cmds, ui_busy>>
       ELSE /\ cmds' = Append(cmds, <<"cports.exe", "/close", "*", "*", "*",
                                      "*", selected_process>>)
            /\ ui_busy' = "subprocess.run"

\* kill_connections up to and including the call of subprocess.run; the
\* UI thread then sits in that call until SubprocessReturns.
kill_connections ==
    /\ hotkey_pressed' = hotkey_pressed - 1
    /\ IF is_paused \/ selected_process = None
       THEN UNCHANGED <<cmds, ui_busy, printed>>
       ELSE IF ~cports_present
       THEN /\ printed' = "Can't find cports.exe"
            /\ UNCHANGED <<cmds, ui_busy>>
       ELSE /\ cmds' = Append(cmds, <<CPORTS_PATH, "/close", "*", "*", "*",
                                      "*", selected_process>>)
            /\ ui_busy' = "subprocess.run"
            /\ UNCHANGED printed

KillConnections ==
    /\ UiIdle
    /\ hotkey_pressed > 0
    /\ kill_connections
    /\ UNCHANGED <<launchVars, validVars, app, window_hidden, selected_process, process_label,
                   current_hotkey, hotkey_listener, keyboard_hotkeys,
                   is_paused, tray_icon, toggle_action, set_hotkey_button,
                   hotkey_capture, timers, dialog, process_loader,
                   icon_thread, video_thread, cports_present>>

\* subprocess.run returns, exits non-zero (check=True: CalledProcessError)
\* or the invocation raises another Exception.
SubprocessOutcomes == {"returns", "CalledProcessError", "Exception"}

\* Mutant: the except clause names CalledProcessError alone.
except_CalledProcessError_only(outcome) == outcome = "CalledProcessError"

\* except (subprocess.CalledProcessError, Exception)
except_clause(outcome) == outcome \in {"CalledProcessError", "Exception"}

\* The end of kill_connections: subprocess.run returns, or the except
\* clause prints and passes; an exception the clause does not catch leaves
\* the slot and ends the application.
SubprocessReturns ==
    /\ app = "running"
    /\ ui_busy = "subprocess.run"
    /\ \E outcome \in SubprocessOutcomes :
          IF outcome = "returns"
          THEN ui_busy' = None /\ UNCHANGED <<app, printed>>
          ELSE IF except_clause(outcome)
          THEN /\ ui_busy' = None
               /\ printed' = "Failed to kill connections"
               /\ UNCHANGED app
          ELSE /\ app' = "crashed"
               /\ UNCHANGED <<ui_busy, printed>>
    /\ UNCHANGED <<launchVars, validVars, window_hidden, selected_process, process_label,
                   current_hotkey, hotkey_listener, keyboard_hotkeys,
                   hotkey_pressed, is_paused, tray_icon, toggle_action,
                   set_hotkey_button, hotkey_capture, timers, dialog,
                   process_loader, icon_thread, video_thread,
                   cports_present, cmds>>

\* ---------------------------------------------------------------------
\* Process dialog
\* ---------------------------------------------------------------------
NameRank(n) == IF n = "chrome.exe" THEN 1 ELSE 2

\* sorted(processes, key=lambda x: x['name'].lower())
SortedNames(processes) ==
    CHOOSE s \in [1..Len(processes) -> Range(processes)] :
        /\ Range(s) = Range(processes)
        /\ \A i, j \in 1..Len(processes) :
              i < j => NameRank(s[i]) <= NameRank(s[j])

\* open_process_dialog up to dialog.exec(): ProcessDialog.__init__ and
\* showEvent.  exec() runs a nested event loop until accept or reject.
OpenProcessDialog ==
    /\ WindowInput
    /\ dialog' = [open |-> TRUE, items |-> <<"Loading processes...">>,
                  ok_enabled |-> FALSE, currentItem |-> None]
    /\ process_loader' = [state |-> "running", processes |-> <<>>]
    /\ UNCHANGED <<launchVars, validVars, printed, app, ui_busy, window_hidden, selected_process,
                   process_label, current_hotkey, hotkey_listener,
                   keyboard_hotkeys, hotkey_pressed, is_paused, tray_icon,
                   toggle_action, set_hotkey_button, hotkey_capture, timers,
                   icon_thread, video_thread, cports_present, cmds>>

\* ProcessLoaderThread.run: enumerates on the worker, emits processes_ready.
ProcessLoaderRun ==
    /\ app = "running"
    /\ process_loader.state = "running"
    /\ \E process_list \in ProcessLists :
          process_loader' = [state |-> "emitted", processes |-> process_list]
    /\ UNCHANGED <<launchVars, validVars, printed, app, ui_busy, window_hidden, selected_process,
                   process_label, current_hotkey, hotkey_listener,
                   keyboard_hotkeys, hotkey_pressed, is_paused, tray_icon,
                   toggle_action, set_hotkey_button, hotkey_capture, timers,
                   dialog, icon_thread, video_thread, cports_present, cmds>>

\* ProcessDialog.update_process_list and start_icon_loader (UI slot).
UpdateProcessList ==
    /\ UiIdle
    /\ dialog.open
    /\ process_loader.state = "emitted"
    /\ LET processes == process_loader.processes
       IN IF processes = <<>>
          THEN /\ dialog' = [dialog EXCEPT
                                !.items = <<"Could not load processes.">>,
                                !.currentItem = None]
               /\ UNCHANGED icon_thread
          ELSE /\ dialog' = [dialog EXCEPT
                                !.items = SortedNames(processes),
                                !.currentItem = None,
                                !.ok_enabled = TRUE]
               /\ icon_thread' = "running"
    /\ process_loader' = NoLoader
    /\ UNCHANGED <<launchVars, validVars, printed, app, ui_busy, window_hidden, selected_process,
                   process_label, current_hotkey, hotkey_listener,
                   keyboard_hotkeys, hotkey_pressed, is_paused, tray_icon,
                   toggle_action, set_hotkey_button, hotkey_capture, timers,
                   video_thread, cports_present, cmds>>

\* IconLoaderThread.run: looks the icons up on the worker.  The icons
\* themselves (icon_ready, update_item_icon) are decoration of the items.
IconLoaderRun ==
    /\ app = "running"
    /\ icon_thread = "running"
    /\ icon_thread' = "finished"
    /\ UNCHANGED <<launchVars, validVars, printed, app, ui_busy, window_hidden, selected_process,
                   process_label, current_hotkey, hotkey_listener,
                   keyboard_hotkeys, hotkey_pressed, is_paused, tray_icon,
                   toggle_action, set_hotkey_button, hotkey_capture, timers,
                   dialog, process_loader, video_thread, cports_present,
                   cmds>>

\* The user clicks a process in the list.
SelectItem ==
    /\ UiIdle
    /\ dialog.open
    /\ dialog.ok_enabled
    /\ \E i \in DOMAIN dialog.items :
          /\ dialog.items[i] # dialog.currentItem
          /\ dialog' = [dialog EXCEPT !.currentItem = dialog.items[i]]
    /\ UNCHANGED <<launchVars, validVars, printed, app, ui_busy, window_hidden, selected_process,
                   process_label, current_hotkey, hotkey_listener,
                   keyboard_hotkeys, hotkey_pressed, is_paused, tray_icon,
                   toggle_action, set_hotkey_button, hotkey_capture, timers,
                   process_loader, icon_thread, video_thread,
                   cports_present, cmds>>

\* open_process_dialog after dialog.exec() has returned `accepted`, with
\* dialog.selected_process = dialog_selected.
open_process_dialog(accepted, dialog_selected) ==
    IF accepted
    THEN IF dialog_selected # None
         THEN /\ selected_process' = dialog_selected
              /\ process_label' = <<"Target: ", dialog_selected>>
              /\ UNCHANGED current_hotkey
              /\ IF ~IsRunning(hotkey_listener)
                 THEN restart_hotkey_listener
                 ELSE UNCHANGED <<hotkey_listener, keyboard_hotkeys>>
         ELSE UNCHANGED <<selected_process, process_label, current_hotkey,
                          hotkey_listener, keyboard_hotkeys>>
    ELSE /\ process_label' = IF selected_process = None
                             THEN <<"No process selected">>
                             ELSE process_label
         /\ UNCHANGED <<selected_process, current_hotkey, hotkey_listener,
                        keyboard_hotkeys>>

\* ProcessDialog.accept (OK button), then the rest of open_process_dialog.
DialogAccept ==
    /\ UiIdle
    /\ dialog.open
    /\ dialog.ok_enabled
    /\ open_process_dialog(TRUE, dialog.currentItem)
    /\ dialog' = NoDialog
    /\ process_loader' = NoLoader
    /\ icon_thread' = None
    /\ UNCHANGED <<launchVars, validVars, printed, app, ui_busy, window_hidden, hotkey_pressed, is_paused,
                   tray_icon, toggle_action, set_hotkey_button,
                   hotkey_capture, timers, video_thread, cports_present,
                   cmds>>

\* ProcessDialog.reject (Cancel, Esc, the dialog's title-bar close), then
\* the rest of open_process_dialog.
DialogReject ==
    /\ UiIdle
    /\ dialog.open
    /\ open_process_dialog(FALSE, None)
    /\ dialog' = NoDialog
    /\ process_loader' = NoLoader
    /\ icon_thread' = None
    /\ UNCHANGED <<launchVars, validVars, printed, app, ui_busy, window_hidden, hotkey_pressed, is_paused,
                   tray_icon, toggle_action, set_hotkey_button,
                   hotkey_capture, timers, video_thread, cports_present,
                   cmds>>

\* ---------------------------------------------------------------------
\* Window and tray
\* ---------------------------------------------------------------------
\* Mutant: closing the last window ends the event loop
\* (setQuitOnLastWindowClosed left at its default).
CloseWindow_quits ==
    /\ UiIdle /\ ~window_hidden /\ ~dialog.open
    /\ window_hidden' = TRUE
    /\ app' = "quit"
    /\ UNCHANGED <<launchVars, validVars, printed, ui_busy, selected_process, process_label,
                   current_hotkey, hotkey_listener, keyboard_hotkeys,
                   hotkey_pressed, is_paused, tray_icon, toggle_action,
                   set_hotkey_button, hotkey_capture, timers, dialog,
                   process_loader, icon_thread, video_thread,
                   cports_present, cmds>>

\* CustomTitleBar.close_button -> MainWindow.close(): the window is hidden;
\* with setQuitOnLastWindowClosed(False) the event loop keeps running.
CloseWindow ==
    /\ WindowInput
    /\ window_hidden' = TRUE
    /\ UNCHANGED <<launchVars, validVars, printed, app, ui_busy, selected_process, process_label,
                   current_hotkey, hotkey_listener, keyboard_hotkeys,
                   hotkey_pressed, is_paused, tray_icon, toggle_action,
                   set_hotkey_button, hotkey_capture, timers, dialog,
                   process_loader, icon_thread, video_thread,
                   cports_present, cmds>>

\* on_tray_icon_activated(Trigger)
OnTrayIconActivated ==
    /\ UiIdle
    /\ tray_icon = "shown"
    /\ window_hidden' = ~window_hidden
    /\ UNCHANGED <<launchVars, validVars, printed, app, ui_busy, selected_process, process_label,
                   current_hotkey, hotkey_listener, keyboard_hotkeys,
                   hotkey_pressed, is_paused, tray_icon, toggle_action,
                   set_hotkey_button, hotkey_capture, timers, dialog,
                   process_loader, icon_thread, video_thread,
                   cports_present, cmds>>

toggle_pause ==
    /\ is_paused' = ~is_paused
    /\ toggle_action' = IF is_paused' THEN "Resume" ELSE "Pause"

TogglePause ==
    /\ UiIdle
    /\ tray_icon = "shown"
    /\ toggle_pause
    /\ UNCHANGED <<launchVars, validVars, printed, app, ui_busy, window_hidden, selected_process,
                   process_label, current_hotkey, hotkey_listener,
                   keyboard_hotkeys, hotkey_pressed, tray_icon,
                   set_hotkey_button, hotkey_capture, timers, dialog,
                   process_loader, icon_thread, video_thread,
                   cports_present, cmds>>

\* exit_app (tray Exit action).  quit() also ends the nested loop of an
\* open dialog, whose exec() then returns rejected.
ExitApp ==
    /\ UiIdle
    /\ tray_icon = "shown"
    /\ tray_icon' = "hidden"
    /\ hotkey_listener' = IF IsRunning(hotkey_listener)
                          THEN [hotkey_listener EXCEPT !.state = "finished"]
                          ELSE hotkey_listener
    /\ keyboard_hotkeys' = {}
    /\ video_thread' = "stopped"
    /\ app' = "quit"
    /\ dialog' = NoDialog
    /\ process_label' = IF dialog.open /\ selected_process = None
                        THEN <<"No process selected">>
                        ELSE process_label
    /\ UNCHANGED <<launchVars, validVars, printed, ui_busy, window_hidden, selected_process, current_hotkey,
                   hotkey_pressed, is_paused, toggle_action,
                   set_hotkey_button, hotkey_capture, timers,
                   process_loader, icon_thread, cports_present, cmds>>

\* ---------------------------------------------------------------------
\* Hotkey capture
\* ---------------------------------------------------------------------
\* start_hotkey_capture (Set Hotkey button): starts the capture thread.
StartHotkeyCapture ==
    /\ WindowInput
    /\ set_hotkey_button.enabled
    /\ set_hotkey_button' = [text |-> <<"Press any key...">>,
                             enabled |-> FALSE]
    /\ hotkey_capture' = [state |-> "reading", hotkey |-> <<>>]
    /\ UNCHANGED <<launchVars, validVars, printed, app, ui_busy, window_hidden, selected_process,
                   process_label, current_hotkey, hotkey_listener,
                   keyboard_hotkeys, hotkey_pressed, is_paused, tray_icon,
                   toggle_action, timers, dialog, process_loader,
                   icon_thread, video_thread, cports_present, cmds>>

Rejected(hotkey) == set_new_hotkey(hotkey).outcome \in {"too_many", "invalid"}

\* capture_worker: keyboard.read_hotkey returns on the capture thread, which
\* emits hotkey_captured_signal.  (A combination that will be rejected is
\* read only while another single-shot timer can be pending.)
CaptureWorker(results) ==
    /\ app = "running"
    /\ hotkey_capture.state = "reading"
    /\ \E hotkey \in results :
          /\ Rejected(hotkey) => Len(timers) < MaxTimers
          /\ hotkey_capture' = [state |-> "emitted", hotkey |-> hotkey]
    /\ UNCHANGED <<launchVars, validVars, printed, app, ui_busy, window_hidden, selected_process,
                   process_label, current_hotkey, hotkey_listener,
                   keyboard_hotkeys, hotkey_pressed, is_paused, tray_icon,
                   toggle_action, set_hotkey_button, timers, dialog,
                   process_loader, icon_thread, video_thread,
                   cports_present, cmds>>

\* MainWindow.set_new_hotkey, the slot of hotkey_captured_signal.
SetNewHotkey ==
    /\ UiIdle
    /\ hotkey_capture.state = "emitted"
    /\ LET new == set_new_hotkey(hotkey_capture.hotkey)
           original_text == hotkey_text(current_hotkey)
       IN IF new.outcome \in {"too_many", "invalid"}
          THEN /\ set_hotkey_button' =
                     [text |-> IF new.outcome = "too_many"
                               THEN <<"Too many modifiers!">>
                               ELSE <<"Invalid Combination!">>,
                      enabled |-> TRUE]
               /\ timers' = Append(timers, original_text)
               /\ UNCHANGED <<current_hotkey, hotkey_listener,
                              keyboard_hotkeys>>
          ELSE /\ current_hotkey' = new.current_hotkey
               /\ restart_hotkey_listener
               /\ set_hotkey_button' = [text |-> hotkey_text(current_hotkey'),
                                        enabled |-> TRUE]
               /\ UNCHANGED timers
    /\ hotkey_capture' = NoCapture
    /\ UNCHANGED <<launchVars, validVars, printed, app, ui_busy, window_hidden, selected_process,
                   process_label, hotkey_pressed, is_paused, tray_icon,
                   toggle_action, dialog, process_loader, icon_thread,
                   video_thread, cports_present, cmds>>

\* Mutant: the single-shot timer runs out without restoring the text.
TimerFires_no_restore ==
    /\ UiIdle
    /\ timers # <<>>
    /\ timers' = Tail(timers)
    /\ UNCHANGED <<launchVars, validVars, printed, app, ui_busy, window_hidden,
                   selected_process, process_label, current_hotkey,
                   hotkey_listener, keyboard_hotkeys, hotkey_pressed,
                   is_paused, tray_icon, toggle_action, set_hotkey_button,
                   hotkey_capture, dialog, process_loader, icon_thread,
                   video_thread, cports_present, cmds>>

\* QTimer.singleShot(2000, lambda: set_hotkey_button.setText(original_text))
TimerFires ==
    /\ UiIdle
    /\ timers # <<>>
    /\ set_hotkey_button' = [set_hotkey_button EXCEPT !.text = Head(timers)]
    /\ timers' = Tail(timers)
    /\ UNCHANGED <<launchVars, validVars, printed, app, ui_busy, window_hidden, selected_process,
                   process_label, current_hotkey, hotkey_listener,
                   keyboard_hotkeys, hotkey_pressed, is_paused, tray_icon,
                   toggle_action, hotkey_capture, dialog, process_loader,
                   icon_thread, video_thread, cports_present, cmds>>

\* ---------------------------------------------------------------------
\* Idle values of the variables the other specifications use
\* ---------------------------------------------------------------------
Instances == 1..NumInstances

\* One launch of the program: where __main__ stands (pc), what
\* IsUserAnAdmin, shared_memory.attach() and .create(1) gave (None before
\* the call), whether MainWindow() was constructed, whether a hotkey
\* listener was started, and the exit code (<<>> while running).
NotLaunched == [pc |-> "not_started", admin_query |-> None, attach |-> None,
                create |-> None, window |-> FALSE, hotkey |-> FALSE,
                exit_code |-> <<>>]

LaunchIdle == inst = [i \in Instances |-> NotLaunched] /\ shared_memory = {}
ValidIdle == hotkey_str = <<>> /\ valid_result = <<>>

\* ---------------------------------------------------------------------
\* Spec: one running instance
\* ---------------------------------------------------------------------
Init == UiInit /\ LaunchIdle /\ ValidIdle

UiNext ==
    \/ OpenProcessDialog
    \/ ProcessLoaderRun
    \/ UpdateProcessList
    \/ IconLoaderRun
    \/ SelectItem
    \/ DialogAccept
    \/ DialogReject
    \/ CloseWindow
    \/ OnTrayIconActivated
    \/ TogglePause
    \/ ExitApp
    \/ StartHotkeyCapture
    \/ CaptureWorker(PlainHotkeys)
    \/ SetNewHotkey
    \/ ListenerRun
    \/ HotkeyFires
    \/ KillConnections
    \/ SubprocessReturns

Next == UiNext

Spec == Init /\ [][Next]_vars

\* ---------------------------------------------------------------------
\* SpecCapture: the Set Hotkey button with every combination of up to
\* MaxKeys keys, the timers of the rejections and the listener restarts.
\* ---------------------------------------------------------------------
CaptureNext ==
    \/ StartHotkeyCapture
    \/ CaptureWorker(ReadHotkeyResults)
    \/ SetNewHotkey
    \/ TimerFires
    \/ ListenerRun

NextCapture == CaptureNext

InitCapture == UiRest /\ LaunchIdle /\ ValidIdle

SpecCapture == InitCapture /\ [][NextCapture]_vars

\* SpecCapture while the event loop keeps running: a single-shot timer
\* that is due is delivered.
SpecCaptureFair == SpecCapture /\ WF_vars(TimerFires)

\* ---------------------------------------------------------------------
\* SpecLaunch: __main__ of several launches, interleaved
\* ---------------------------------------------------------------------
\* ctypes.windll.shell32.IsUserAnAdmin(): a zero or non-zero BOOL, or the
\* call raises.
AdminQueries == {"zero", "nonzero", "raises"}

\* Mutant: a failing privilege query counts as "administrator".
is_admin_unless_zero(query) == query # "zero"

\* The truth value of is_admin().
is_admin(query) == IF query = "raises" THEN FALSE ELSE query = "nonzero"

LaunchInit ==
    /\ inst = [i \in Instances |-> NotLaunched]
    /\ shared_memory = {}

\* The user starts the program once more.
Launch(i) ==
    /\ UNCHANGED <<uiVars, validVars>>
    /\ inst[i].pc = "not_started"
    /\ inst' = [inst EXCEPT ![i].pc = "admin_check"]
    /\ UNCHANGED shared_memory

\* if not is_admin(): MessageBoxW(...)
AdminCheck(i) ==
    /\ UNCHANGED <<uiVars, validVars>>
    /\ inst[i].pc = "admin_check"
    /\ \E query \in AdminQueries :
          inst' = [inst EXCEPT ![i].admin_query = query,
                               ![i].pc = IF ~is_admin(query)
                                         THEN "message_box"
                                         ELSE "attach"]
    /\ UNCHANGED shared_memory

\* The message box is dismissed: sys.exit(1)
AdminExit(i) ==
    /\ UNCHANGED <<uiVars, validVars>>
    /\ inst[i].pc = "message_box"
    /\ inst' = [inst EXCEPT ![i].pc = "exited", ![i].exit_code = <<1>>]
    /\ UNCHANGED shared_memory

\* shared_memory.attach(): succeeds when some process holds the segment.
Attach(i) ==
    /\ UNCHANGED <<uiVars, validVars>>
    /\ inst[i].pc = "attach"
    /\ IF shared_memory # {}
       THEN /\ inst' = [inst EXCEPT ![i].attach = "True",
                                    ![i].pc = "error_box"]
            /\ shared_memory' = shared_memory \cup {i}
       ELSE /\ inst' = [inst EXCEPT ![i].attach = "False",
                                    ![i].pc = "create"]
            /\ UNCHANGED shared_memory

\* error_box.exec() returns: sys.exit(0); the handle goes with the process.
AlreadyRunningExit(i) ==
    /\ UNCHANGED <<uiVars, validVars>>
    /\ inst[i].pc = "error_box"
    /\ inst' = [inst EXCEPT ![i].pc = "exited", ![i].exit_code = <<0>>]
    /\ shared_memory' = shared_memory \ {i}

\* Mutant: create does not notice a segment that exists already.
create_over_existing(exists, os_error) == ~os_error

\* QSharedMemory.create: fails when the segment exists (AlreadyExists) or
\* the system refuses it (os_error).
create(exists, os_error) == ~exists /\ ~os_error

\* if not shared_memory.create(1): sys.exit(1)
Create(i) ==
    /\ UNCHANGED <<uiVars, validVars>>
    /\ inst[i].pc = "create"
    /\ \E os_error \in BOOLEAN :
          IF create(shared_memory # {}, os_error)
          THEN /\ inst' = [inst EXCEPT ![i].create = "True",
                                       ![i].pc = "window"]
               /\ shared_memory' = shared_memory \cup {i}
          ELSE /\ inst' = [inst EXCEPT ![i].create = "False",
                                       ![i].pc = "exited",
                                       ![i].exit_code = <<1>>]
               /\ UNCHANGED shared_memory

\* window = MainWindow(); window.show(); app.exec()
CreateWindow(i) ==
    /\ UNCHANGED <<uiVars, validVars>>
    /\ inst[i].pc = "window"
    /\ inst' = [inst EXCEPT ![i].window = TRUE, ![i].pc = "event_loop"]
    /\ UNCHANGED shared_memory

\* MainWindow.start_hotkey_listener in that instance
RegisterHotkey(i) ==
    /\ UNCHANGED <<uiVars, validVars>>
    /\ inst[i].pc = "event_loop"
    /\ ~inst[i].hotkey
    /\ inst' = [inst EXCEPT ![i].hotkey = TRUE]
    /\ UNCHANGED shared_memory

\* exit_app: app.exec() returns 0, sys.exit(0)
Quit(i) ==
    /\ UNCHANGED <<uiVars, validVars>>
    /\ inst[i].pc = "event_loop"
    /\ inst' = [inst EXCEPT ![i].pc = "exited", ![i].exit_code = <<0>>]
    /\ shared_memory' = shared_memory \ {i}

LaunchNext ==
    \E i \in Instances :
        \/ Launch(i)
        \/ AdminCheck(i)
        \/ AdminExit(i)
        \/ Attach(i)
        \/ AlreadyRunningExit(i)
        \/ Create(i)
        \/ CreateWindow(i)
        \/ RegisterHotkey(i)
        \/ Quit(i)

NextLaunch == LaunchNext

InitLaunch == UiRest /\ LaunchInit /\ ValidIdle

SpecLaunch == InitLaunch /\ [][NextLaunch]_vars

\* ---------------------------------------------------------------------
\* SpecValid: is_valid_hotkey applied to every string of up to MaxStrLen
\* atoms
\* ---------------------------------------------------------------------
ValidAtoms == {"ctrl", "alt", "k", "K", "b", "+", " "}

RECURSIVE StringsUpTo(_)
StringsUpTo(n) ==
    IF n = 0 THEN {<<>>}
    ELSE LET shorter == StringsUpTo(n - 1)
         IN shorter \cup {Append(s, a) : s \in shorter, a \in ValidAtoms}

InitValid ==
    /\ UiRest
    /\ LaunchIdle
    /\ hotkey_str \in StringsUpTo(MaxStrLen)
    /\ valid_result = <<>>

CallIsValidHotkey ==
    /\ valid_result = <<>>
    /\ valid_result' = <<is_valid_hotkey(hotkey_str)>>
    /\ UNCHANGED <<hotkey_str, uiVars, launchVars>>

NextValid == CallIsValidHotkey

SpecValid == InitValid /\ [][NextValid]_vars

\* =====================================================================
\* Properties
\* =====================================================================
KillStep == hotkey_pressed' < hotkey_pressed

Command(process) == <<CPORTS_PATH, "/close", "*", "*", "*", "*", process>>

\* C1: a hotkey press handled while the app is not paused, a process is
\* selected and the tool exists starts the tool exactly once, with
\* /close * * * * P, and nothing else starts the tool; P is the item of the
\* most recently accepted dialog: only an accepted dialog with a current
\* item changes selected_process (to that item), a cancelled dialog or one
\* accepted without a current item leaves it alone.
C1_HotkeyInvokesToolOnce ==
    [][/\ (KillStep /\ ~is_paused /\ selected_process # None
                    /\ cports_present)
              => cmds' = Append(cmds, Command(selected_process))
       /\ cmds' # cmds => KillStep
       /\ (DialogAccept /\ dialog.currentItem # None)
              => selected_process' = dialog.currentItem
       /\ (DialogReject \/ (DialogAccept /\ dialog.currentItem = None))
              => selected_process' = selected_process
       /\ selected_process' # selected_process => DialogAccept]_vars

\* Two presses were handled, each for the process selected at its time.
C1_Witness ==
    /\ Len(cmds) = 2
    /\ cmds[1] = Command("chrome.exe")
    /\ cmds[2] = Command("game.exe")
    /\ selected_process = "game.exe"
    /\ ui_busy = "subprocess.run"

\* C2: a hotkey press handled while is_paused is true or while no process
\* is selected starts no tool; toggle_pause flips is_paused; the tray
\* action reads "Resume" exactly when is_paused is true, "Pause" otherwise.
C2_PausedNeverInvokes ==
    /\ [](toggle_action # None =>
            toggle_action = (IF is_paused THEN "Resume" ELSE "Pause"))
    /\ [][/\ (KillStep /\ (is_paused \/ selected_process = None))
                 => (cmds' = cmds /\ ui_busy' = ui_busy)
          /\ TogglePause => is_paused' = ~is_paused
          /\ is_paused' # is_paused => TogglePause]_vars

\* A press is queued while the app is paused with a process selected, a
\* listener registered and the tool present.
C2_Witness ==
    /\ is_paused
    /\ toggle_action = "Resume"
    /\ hotkey_pressed > 0
    /\ selected_process # None
    /\ cports_present
    /\ cmds = <<>>

\* C5: closing or hiding the main window neither ends the application nor
\* touches the hotkey listener; the application ends only in exit_app; a
\* press handled while the window is hidden starts the tool as usual.
C5_CloseKeepsListening ==
    [][/\ window_hidden' # window_hidden
              => /\ app' = app
                 /\ hotkey_listener' = hotkey_listener
                 /\ keyboard_hotkeys' = keyboard_hotkeys
       /\ app' # app => ExitApp
       /\ (KillStep /\ window_hidden /\ ~is_paused
                    /\ selected_process # None /\ cports_present)
              => Len(cmds') = Len(cmds) + 1]_vars

\* The tool is running for a press handled while the window is hidden.
C5_Witness ==
    /\ window_hidden
    /\ app = "running"
    /\ hotkey_listener.state = "listening"
    /\ ui_busy = "subprocess.run"

\* C6: no blocking call runs on the UI thread.
C6_NoBlockingCallOnUiThread == ui_busy = None

\* C8: while a HotkeyListener thread is running, a process is selected.
C8_ListenerOnlyWithProcess ==
    IsRunning(hotkey_listener) => selected_process # None

\* --- hotkey strings as the claims read them ---------------------------
\* The keys of a hotkey string: its '+'-separated parts, blanks stripped.
KeysOf(hotkey) ==
    LET split == SplitPlus(hotkey)
    IN [i \in DOMAIN split |-> Strip(split[i])]

ModifiersOf(hotkey) == Filter(KeysOf(hotkey), MODIFIERS, TRUE)
OtherKeysOf(hotkey) == Filter(KeysOf(hotkey), MODIFIERS, FALSE)

\* One or more modifiers plus exactly one other key.
ModifiersPlusOneKey(hotkey) ==
    /\ Len(ModifiersOf(hotkey)) >= 1
    /\ Len(OtherKeysOf(hotkey)) = 1
    /\ OtherKeysOf(hotkey)[1] # <<>>

\* The hotkeys the application holds: current_hotkey, the listener's and
\* the ones registered with the keyboard hook.
HeldHotkeys ==
    (IF current_hotkey = NoHotkey THEN {} ELSE {current_hotkey[1]})
    \cup (IF IsRunning(hotkey_listener) THEN {hotkey_listener.hotkey} ELSE {})
    \cup keyboard_hotkeys

\* C4: every hotkey stored in current_hotkey or registered with the
\* keyboard hook is one or more modifiers plus exactly one other key.
C4_StoredHotkeyHasModifier ==
    \A hotkey \in HeldHotkeys : ModifiersPlusOneKey(hotkey)

\* C9: is_valid_hotkey(s) is True exactly when s is a '+'-separated
\* combination of one or more modifiers and exactly one other key.
C9_ValidIffModifiersPlusOneKey ==
    valid_result # <<>> =>
        valid_result[1] = ModifiersPlusOneKey(Lower(hotkey_str))

\* C10: when set_new_hotkey stores a captured combination, the stored
\* string has at most one modifier and exactly one other key, joined with
\* ' + '; the other key is the last non-modifier key pressed, after the
\* modifier, and a Cyrillic key is stored as its RU_TO_EN_MAP counterpart.
StoresCapture ==
    /\ hotkey_capture.state = "emitted"
    /\ hotkey_capture'.state = "idle"
    /\ timers' = timers
    /\ current_hotkey' # NoHotkey

PastTheLock == {i \in Instances : inst[i].pc \in {"window", "event_loop"}}

\* C3: at most one launch is past the single-instance lock at any time; a
\* launch whose attach succeeded exits with 0, one whose create failed
\* exits with 1, and neither has a MainWindow or a hotkey listener.
C3_SingleInstance ==
    /\ Cardinality(PastTheLock) <= 1
    /\ \A i \in Instances :
          /\ inst[i].attach = "True" =>
                /\ inst[i].pc \in {"error_box", "exited"}
                /\ inst[i].pc = "exited" => inst[i].exit_code = <<0>>
                /\ ~inst[i].window /\ ~inst[i].hotkey
          /\ inst[i].create = "False" =>
                /\ inst[i].pc = "exited"
                /\ inst[i].exit_code = <<1>>
                /\ ~inst[i].window /\ ~inst[i].hotkey
          /\ inst[i].window => inst[i].create = "True"

\* Two launches both found no segment to attach to; one created it and
\* runs its window, the other failed to create and exited with 1; a third
\* attached and exited with 0.
C3_Witness ==
    \E i, j, k \in Instances :
        /\ inst[i].attach = "False" /\ inst[i].pc = "event_loop"
        /\ inst[j].attach = "False" /\ inst[j].create = "False"
        /\ inst[j].exit_code = <<1>>
        /\ inst[k].attach = "True" /\ inst[k].exit_code = <<0>>

\* C7: a launch for which is_admin() is false (IsUserAnAdmin gave zero or
\* raised) exits with 1 and never touches the lock, a window, the tray or
\* a hotkey listener.
C7_NoAdminExitsBeforeLock ==
    \A i \in Instances :
        inst[i].admin_query \in {"zero", "raises"} =>
            /\ inst[i].pc \in {"message_box", "exited"}
            /\ inst[i].pc = "exited" => inst[i].exit_code = <<1>>
            /\ inst[i].attach = None /\ inst[i].create = None
            /\ i \notin shared_memory
            /\ ~inst[i].window /\ ~inst[i].hotkey

\* The privilege query raised in one launch, which exited with 1, and gave
\* zero in another, while a third runs its window.
C7_Witness ==
    \E i, j, k \in Instances :
        /\ inst[i].admin_query = "raises" /\ inst[i].exit_code = <<1>>
        /\ inst[j].admin_query = "zero" /\ inst[j].exit_code = <<1>>
        /\ inst[k].pc = "event_loop"

\* --- rejected captures --------------------------------------------------
\* More than one modifier, or modifiers with no other key.
RejectedCombination(hotkey) ==
    \/ Len(ModifiersOf(Lower(hotkey))) > 1
    \/ /\ Len(ModifiersOf(Lower(hotkey))) >= 1
       /\ OtherKeysOf(Lower(hotkey)) = <<>>

\* set_new_hotkey handles a rejected combination.
RejectsCapture ==
    /\ hotkey_capture.state = "emitted"
    /\ hotkey_capture'.state = "idle"
    /\ RejectedCombination(hotkey_capture.hotkey)

\* A pending single-shot timer runs out.
TimerExpires == timers # <<>> /\ timers' = Tail(timers)

\* C11: when set_new_hotkey rejects a capture, current_hotkey and the
\* hotkey listener stay as they are, the button is enabled again and shows
\* the error, and a restore of the text of the hotkey current before the
\* capture is queued behind the pending ones; the queue changes in no
\* other way than by the expiry of its oldest timer, which puts that
\* timer's text on the button, and the oldest pending timer always
\* expires eventually.
C11_RejectKeepsHotkey ==
    /\ [][RejectsCapture =>
            /\ current_hotkey' = current_hotkey
            /\ hotkey_listener' = hotkey_listener
            /\ keyboard_hotkeys' = keyboard_hotkeys
            /\ set_hotkey_button'.enabled
            /\ set_hotkey_button'.text \in {<<"Too many modifiers!">>,
                                            <<"Invalid Combination!">>}
            /\ timers' = Append(timers, hotkey_text(current_hotkey))]_vars
    /\ [][/\ timers' # timers => RejectsCapture \/ TimerExpires
          /\ TimerExpires /\ ~RejectsCapture =>
                set_hotkey_button'.text = Head(timers)]_vars
    /\ ([]<>(timers = <<>>) \/ []<><<TimerExpires>>_vars)

\* ctrl+alt (or the like) was rejected while ctrl + k is the hotkey and its
\* listener runs: the button shows the error, the restore is pending.
C11_Witness ==
    /\ current_hotkey = Some(<<"ctrl", " ", "+", " ", "k">>)
    /\ hotkey_listener.state = "listening"
    /\ set_hotkey_button = [text |-> <<"Too many modifiers!">>,
                            enabled |-> TRUE]
    /\ timers = <<hotkey_text(current_hotkey)>>

\* --- errors of kill_connections ----------------------------------------
\* kill_connections gets past the pause and selection tests.
KillAttempt == KillStep /\ ~is_paused /\ selected_process # None

\* The call of subprocess.run comes to an end, one way or another.
SubprocessEnds ==
    /\ ui_busy = "subprocess.run"
    /\ ui_busy' # ui_busy \/ app' # app

\* The handler is over, the application runs on with what it had.
HandlerDone ==
    /\ app' = "running"
    /\ ui_busy' = None
    /\ selected_process' = selected_process
    /\ current_hotkey' = current_hotkey
    /\ is_paused' = is_paused
    /\ hotkey_listener' = hotkey_listener
    /\ keyboard_hotkeys' = keyboard_hotkeys

\* C12: with the tool missing kill_connections starts no subprocess; when
\* subprocess.run ends, by returning, by a non-zero exit or by raising, the
\* handler is over and the application runs on; in each case the selected
\* process, the hotkey, the pause flag and the listener are as before, and
\* a hotkey press handled after an error was printed is handled as any
\* other: the tool is started if it is there, and is not if it is missing.
C12_KillErrorsSwallowed ==
    [][/\ KillAttempt /\ ~cports_present =>
             cmds' = cmds /\ HandlerDone
       /\ SubprocessEnds => cmds' = cmds /\ HandlerDone
       /\ KillAttempt /\ printed # None =>
             cmds' = IF cports_present
                     THEN Append(cmds, Command(selected_process))
                     ELSE cmds]_vars

\* The first run of the tool failed and the failure was printed; the next
\* hotkey press has started the tool again.
C12_Witness ==
    /\ printed = "Failed to kill connections"
    /\ Len(cmds) = 2
    /\ ui_busy = "subprocess.run"
    /\ app = "running"

====
